---- MODULE Spec2Model ----
(***************************************************************************)
(* A model of pywbem/wbemcli.py: the interactive WBEM shell.               *)
(*                                                                         *)
(* The module keeps one global, CONN, set by _remote_connection, and 21    *)
(* operation functions (with 21 short aliases) that each forward one call  *)
(* to a method of CONN.  The connection object itself (WBEMConnection) is  *)
(* external: the model records the calls it receives and lets it answer    *)
(* each call with any reply (a value, None, a CIM error, a transport        *)
(* error).                                                                 *)
(*                                                                         *)
(* Encodings.                                                              *)
(*   - Arguments of the operation functions are Python values written as   *)
(*     their repr: "None", "False", "True", "'root/x'", "['Name']".        *)
(*   - Command line options are optional values: None is the empty tuple   *)
(*     <<>> and a given value x is <<x>>.                                   *)
(*   - The server argument and the URL are sequences of characters, so     *)
(*     that server[0], '%s://%s' and ':%d' are computed, not assumed.      *)
(***************************************************************************)
EXTENDS Integers, Sequences, FiniteSets, TLC

VARIABLES
    CONN,       \* the module global CONN: NoConn, or <<connection object>>
    created,    \* number of WBEMConnection objects constructed so far
    call,       \* the function call just evaluated: [fn, via, args]; NoCall
                \* while the console waits for the next input
    events,     \* what that call did, in order
    typed,      \* what was typed at the password prompt of that call, if any
    sent,       \* the calls that call made on the connection, in order
    reply,      \* the connection's answer to them
    outcome,    \* what the caller got back: a value, None or an exception
    printed,    \* what that call printed: <<>>, or <<connection info>>
    main        \* the run of main(): where it is, what it was given and what
                \* it has done; pc = "import" while main() is not running

vars == <<CONN, created, call, events, typed, sent, reply, outcome, printed,
          main>>

-----------------------------------------------------------------------------
(* Bounds of the model. *)

\* Number of WBEMConnection objects created in one run.
MaxConns == 2

\* Number of optional arguments a caller passes explicitly in one call.
MaxPassed == 2

-----------------------------------------------------------------------------
(* Python values of the operation functions' arguments, as their repr. *)

None == "None"
False == "False"
True == "True"

(* Optional values of the command line options. *)
Absent == <<>>
Given(x) == <<x>>

\* wbemcli.py line 75: CONN = None
NoConn == <<>>

-----------------------------------------------------------------------------
(* Characters and decimal formatting. *)

Digit == <<"0", "1", "2", "3", "4", "5", "6", "7", "8", "9">>

RECURSIVE NatToStr(_)
\* '%d' of a natural number: its decimal digits, most significant first.
NatToStr(n) ==
    IF n < 10 THEN <<Digit[n + 1]>>
    ELSE NatToStr(n \div 10) \o <<Digit[(n % 10) + 1]>>

\* '%d' % n (line 96).
IntToStr(n) == IF n < 0 THEN <<"-">> \o NatToStr(-n) ELSE NatToStr(n)

-----------------------------------------------------------------------------
(* _remote_connection(server, opts), lines 77-110. *)

\* Lines 85-96: the URL handed to WBEMConnection.
Url_http_default(server, opts) ==
    IF server[1] = "/" THEN server
    ELSE LET proto == IF opts.no_ssl THEN <<"h", "t", "t", "p", "s">>
                      ELSE <<"h", "t", "t", "p">>
             url == proto \o <<":", "/", "/">> \o server
         IN  IF opts.port # Absent THEN url \o <<":">> \o IntToStr(opts.port[1])
             ELSE url

Url_port_always(server, opts) ==
    LET proto == IF opts.no_ssl THEN <<"h", "t", "t", "p">>
                 ELSE <<"h", "t", "t", "p", "s">>
        url == IF server[1] = "/" THEN server
               ELSE proto \o <<":", "/", "/">> \o server
    IN  IF opts.port # Absent THEN url \o <<":">> \o IntToStr(opts.port[1])
        ELSE url

Url(server, opts) ==
    IF server[1] = "/" THEN server
    ELSE LET proto == IF opts.no_ssl THEN <<"h", "t", "t", "p">>
                      ELSE <<"h", "t", "t", "p", "s">>
             url == proto \o <<":", "/", "/">> \o server
         IN  IF opts.port # Absent THEN url \o <<":">> \o IntToStr(opts.port[1])
             ELSE url

\* Line 100: whether getpass.getpass() is called.
NeedsPrompt_any_user(opts) == opts.user # Absent

NeedsPrompt(opts) == opts.user # Absent /\ opts.password = Absent

\* Lines 100-101: opts.password after the prompt; pw is what was typed.
Password(opts, pw) == IF NeedsPrompt(opts) THEN Given(pw) ELSE opts.password

\* Lines 98-104: the credentials handed to WBEMConnection.
Creds(opts, pw) ==
    IF opts.user # Absent \/ Password(opts, pw) # Absent
    THEN Given(<<opts.user, Password(opts, pw)>>)
    ELSE Absent

\* Lines 100-106 in order: the prompt, if any, then the constructor.
ConnectEvents(opts) ==
    (IF NeedsPrompt(opts) THEN <<"getpass">> ELSE <<>>) \o <<"WBEMConnection">>

\* Lines 106-108: the connection object; id tells the objects apart.
NewConnection(id, server, opts, pw) ==
    [id                |-> id,
     url               |-> Url(server, opts),
     creds             |-> Creds(opts, pw),
     default_namespace |-> opts.namespace,
     debug             |-> TRUE]

-----------------------------------------------------------------------------
(* The connection's answers. *)

Value(v) == [kind |-> "value", value |-> v, code |-> 0, desc |-> ""]
NoneValue == [kind |-> "None", value |-> <<>>, code |-> 0, desc |-> ""]
CIMError(n, d) == [kind |-> "CIMError", value |-> <<>>, code |-> n, desc |-> d]
TransportError(d) ==
    [kind |-> "TransportError", value |-> <<>>, code |-> 0, desc |-> d]
AttributeError(d) ==
    [kind |-> "AttributeError", value |-> <<>>, code |-> 0, desc |-> d]
NoReply == [kind |-> "", value |-> <<>>, code |-> 0, desc |-> ""]

IsError(r) == r.kind \in {"CIMError", "TransportError", "AttributeError"}

\* What a connection method may answer: a result (a list keeps its order; for
\* InvokeMethod the pair of return value and output parameters), None, a CIM
\* error with a status code and description, or a transport error.
Replies ==
    {Value(<<"A", "B">>), Value(<<"B", "A">>), NoneValue,
     CIMError(1, "failed"), CIMError(6, "not found"),
     TransportError("timed out")}

-----------------------------------------------------------------------------
(* The operation functions, lines 121-703.  Each is the call it forwards   *)
(* to CONN: the method, the positional arguments and the keyword           *)
(* arguments, and whether the function returns the method's result.        *)

ConnCall(op, pos, kw) == [op |-> op, pos |-> pos, kw |-> kw]

\* "return CONN.op(...)": one call, its result returned.
Returning(c) == [calls |-> <<c>>, ret |-> TRUE]
\* "CONN.op(...)": one call, its result dropped.
Dropping(c) == [calls |-> <<c>>, ret |-> FALSE]

\* Line 137.
EnumerateInstanceNames(cn, ns) ==
    Returning(ConnCall("EnumerateInstanceNames", <<cn, ns>>, {}))

\* Lines 181-186.
EnumerateInstances_lo_falsy(cn, ns, lo, di, iq, ico, pl) ==
    Returning(ConnCall("EnumerateInstances", <<cn, ns>>,
        {<<"LocalOnly", IF lo = None THEN False ELSE lo>>,
         <<"DeepInheritance", di>>,
         <<"IncludeQualifiers", iq>>,
         <<"IncludeClassOrigin", ico>>,
         <<"PropertyList", pl>>}))

EnumerateInstances(cn, ns, lo, di, iq, ico, pl) ==
    Returning(ConnCall("EnumerateInstances", <<cn, ns>>,
        {<<"LocalOnly", lo>>,
         <<"DeepInheritance", di>>,
         <<"IncludeQualifiers", iq>>,
         <<"IncludeClassOrigin", ico>>,
         <<"PropertyList", pl>>}))

\* Lines 222-226.
GetInstance_retry(ip, lo, iq, ico, pl) ==
    LET c == ConnCall("GetInstance", <<ip>>,
                 {<<"LocalOnly", lo>>,
                  <<"IncludeQualifiers", iq>>,
                  <<"IncludeClassOrigin", ico>>,
                  <<"PropertyList", pl>>})
    IN  [calls |-> <<c, c>>, ret |-> TRUE]

GetInstance(ip, lo, iq, ico, pl) ==
    Returning(ConnCall("GetInstance", <<ip>>,
        {<<"LocalOnly", lo>>,
         <<"IncludeQualifiers", iq>>,
         <<"IncludeClassOrigin", ico>>,
         <<"PropertyList", pl>>}))

\* Lines 248-250.
ModifyInstance(mi, iq, pl) ==
    Dropping(ConnCall("ModifyInstance", <<mi>>,
        {<<"IncludeQualifiers", iq>>,
         <<"PropertyList", pl>>}))

\* Line 266.
CreateInstance_no_return(ni) ==
    Dropping(ConnCall("CreateInstance", <<ni>>, {}))

CreateInstance(ni) ==
    Returning(ConnCall("CreateInstance", <<ni>>, {}))

\* Line 278.
DeleteInstance(ip) ==
    Dropping(ConnCall("DeleteInstance", <<ip>>, {}))

\* Lines 319-323.
AssociatorNames(op, ac, rc, r, rr) ==
    Returning(ConnCall("AssociatorNames", <<op>>,
        {<<"AssocClass", ac>>,
         <<"ResultClass", rc>>,
         <<"Role", r>>,
         <<"ResultRole", rr>>}))

\* Lines 378-385.
Associators(op, ac, rc, r, rr, iq, ico, pl) ==
    Returning(ConnCall("Associators", <<op>>,
        {<<"AssocClass", ac>>,
         <<"ResultClass", rc>>,
         <<"Role", r>>,
         <<"ResultRole", rr>>,
         <<"IncludeQualifiers", iq>>,
         <<"IncludeClassOrigin", ico>>,
         <<"PropertyList", pl>>}))

\* Lines 415-417.
ReferenceNames(op, rc, r) ==
    Returning(ConnCall("ReferenceNames", <<op>>,
        {<<"ResultClass", rc>>,
         <<"Role", r>>}))

\* Lines 463-468.
References(op, rc, r, iq, ico, pl) ==
    Returning(ConnCall("References", <<op>>,
        {<<"ResultClass", rc>>,
         <<"Role", r>>,
         <<"IncludeQualifiers", iq>>,
         <<"IncludeClassOrigin", ico>>,
         <<"PropertyList", pl>>}))

\* Line 491: *params follow mn and op, **kwparams are the keywords.
InvokeMethod(mn, op, params, kwparams) ==
    Returning(ConnCall("InvokeMethod", <<mn, op>> \o params, kwparams))

\* Lines 516-518: ClassName is given ns.
EnumerateClassNames(ns, cn, di) ==
    Returning(ConnCall("EnumerateClassNames", <<ns>>,
        {<<"ClassName", ns>>,
         <<"DeepInheritance", di>>}))

\* Lines 555-560: the method called is EnumerateClassNames.
EnumerateClasses(ns, cn, di, lo, iq, ico) ==
    Returning(ConnCall("EnumerateClassNames", <<ns>>,
        {<<"ClassName", cn>>,
         <<"DeepInheritance", di>>,
         <<"LocalOnly", lo>>,
         <<"IncludeQualifiers", iq>>,
         <<"IncludeClassOrigin", ico>>}))

\* Lines 595-599.
GetClass(cn, ns, lo, iq, ico, pl) ==
    Returning(ConnCall("GetClass", <<cn, ns>>,
        {<<"LocalOnly", lo>>,
         <<"IncludeQualifiers", iq>>,
         <<"IncludeClassOrigin", ico>>,
         <<"PropertyList", pl>>}))

\* Line 613.
ModifyClass(mc, ns) ==
    Returning(ConnCall("ModifyClass", <<mc, ns>>, {}))

\* Line 627.
CreateClass(nc, ns) ==
    Dropping(ConnCall("CreateClass", <<nc, ns>>, {}))

\* Line 641.
DeleteClass(cn, ns) ==
    Dropping(ConnCall("DeleteClass", <<cn, ns>>, {}))

\* Line 657.
EnumerateQualifiers(ns) ==
    Returning(ConnCall("EnumerateQualifiers", <<ns>>, {}))

\* Line 675.
GetQualifier(qn, ns) ==
    Returning(ConnCall("GetQualifier", <<qn, ns>>, {}))

\* Line 689.
SetQualifier(qd, ns) ==
    Dropping(ConnCall("SetQualifier", <<qd, ns>>, {}))

\* Line 703.
DeleteQualifier(qn, ns) ==
    Dropping(ConnCall("DeleteQualifier", <<qn, ns>>, {}))

-----------------------------------------------------------------------------
(* Signatures (the def lines) and names. *)

Functions ==
    {"EnumerateInstanceNames", "EnumerateInstances", "GetInstance",
     "ModifyInstance", "CreateInstance", "DeleteInstance", "AssociatorNames",
     "Associators", "ReferenceNames", "References", "InvokeMethod",
     "EnumerateClassNames", "EnumerateClasses", "GetClass", "ModifyClass",
     "CreateClass", "DeleteClass", "EnumerateQualifiers", "GetQualifier",
     "SetQualifier", "DeleteQualifier"}

\* Parameters without a default.
Required ==
    [EnumerateInstanceNames |-> {"cn"},
     EnumerateInstances     |-> {"cn"},
     GetInstance            |-> {"ip"},
     ModifyInstance         |-> {"mi"},
     CreateInstance         |-> {"ni"},
     DeleteInstance         |-> {"ip"},
     AssociatorNames        |-> {"op"},
     Associators            |-> {"op"},
     ReferenceNames         |-> {"op"},
     References             |-> {"op"},
     InvokeMethod           |-> {"mn", "op"},
     EnumerateClassNames    |-> {},
     EnumerateClasses       |-> {},
     GetClass               |-> {"cn"},
     ModifyClass            |-> {"mc"},
     CreateClass            |-> {"nc"},
     DeleteClass            |-> {"cn"},
     EnumerateQualifiers    |-> {},
     GetQualifier           |-> {"qn"},
     SetQualifier           |-> {"qd"},
     DeleteQualifier        |-> {"qn"}]

\* Parameters with a default (for InvokeMethod: *params and **kwparams).
Optional ==
    [EnumerateInstanceNames |-> {"ns"},
     EnumerateInstances     |-> {"ns", "lo", "di", "iq", "ico", "pl"},
     GetInstance            |-> {"lo", "iq", "ico", "pl"},
     ModifyInstance         |-> {"iq", "pl"},
     CreateInstance         |-> {},
     DeleteInstance         |-> {},
     AssociatorNames        |-> {"ac", "rc", "r", "rr"},
     Associators            |-> {"ac", "rc", "r", "rr", "iq", "ico", "pl"},
     ReferenceNames         |-> {"rc", "r"},
     References             |-> {"rc", "r", "iq", "ico", "pl"},
     InvokeMethod           |-> {"params", "kwparams"},
     EnumerateClassNames    |-> {"ns", "cn", "di"},
     EnumerateClasses       |-> {"ns", "cn", "di", "lo", "iq", "ico"},
     GetClass               |-> {"ns", "lo", "iq", "ico", "pl"},
     ModifyClass            |-> {"ns"},
     CreateClass            |-> {"ns"},
     DeleteClass            |-> {"ns"},
     EnumerateQualifiers    |-> {"ns"},
     GetQualifier           |-> {"ns"},
     SetQualifier           |-> {"ns"},
     DeleteQualifier        |-> {"ns"}]

\* The default of an optional parameter: "=None" throughout; *params and
\* **kwparams are empty when nothing more is passed.
Default(fn, p) ==
    IF p = "params" THEN <<>>
    ELSE IF p = "kwparams" THEN {}
    ELSE None

\* The parameters of a call with the arguments A the caller passed (a
\* function from the names passed to their values); a parameter not passed
\* gets its default.
Bind(fn, A) ==
    [p \in Required[fn] \cup Optional[fn] |->
        IF p \in DOMAIN A THEN A[p] ELSE Default(fn, p)]

\* Python accepts the call when every required parameter is passed and no
\* unknown one is.
Accepts(fn, A) ==
    /\ Required[fn] \subseteq DOMAIN A
    /\ DOMAIN A \subseteq Required[fn] \cup Optional[fn]

\* The body of function fn run with the arguments A.
Apply(fn, A) ==
    LET B == Bind(fn, A) IN
    CASE fn = "EnumerateInstanceNames" -> EnumerateInstanceNames(B.cn, B.ns)
      [] fn = "EnumerateInstances" ->
            EnumerateInstances(B.cn, B.ns, B.lo, B.di, B.iq, B.ico, B.pl)
      [] fn = "GetInstance" -> GetInstance(B.ip, B.lo, B.iq, B.ico, B.pl)
      [] fn = "ModifyInstance" -> ModifyInstance(B.mi, B.iq, B.pl)
      [] fn = "CreateInstance" -> CreateInstance(B.ni)
      [] fn = "DeleteInstance" -> DeleteInstance(B.ip)
      [] fn = "AssociatorNames" -> AssociatorNames(B.op, B.ac, B.rc, B.r, B.rr)
      [] fn = "Associators" ->
            Associators(B.op, B.ac, B.rc, B.r, B.rr, B.iq, B.ico, B.pl)
      [] fn = "ReferenceNames" -> ReferenceNames(B.op, B.rc, B.r)
      [] fn = "References" -> References(B.op, B.rc, B.r, B.iq, B.ico, B.pl)
      [] fn = "InvokeMethod" -> InvokeMethod(B.mn, B.op, B.params, B.kwparams)
      [] fn = "EnumerateClassNames" -> EnumerateClassNames(B.ns, B.cn, B.di)
      [] fn = "EnumerateClasses" ->
            EnumerateClasses(B.ns, B.cn, B.di, B.lo, B.iq, B.ico)
      [] fn = "GetClass" -> GetClass(B.cn, B.ns, B.lo, B.iq, B.ico, B.pl)
      [] fn = "ModifyClass" -> ModifyClass(B.mc, B.ns)
      [] fn = "CreateClass" -> CreateClass(B.nc, B.ns)
      [] fn = "DeleteClass" -> DeleteClass(B.cn, B.ns)
      [] fn = "EnumerateQualifiers" -> EnumerateQualifiers(B.ns)
      [] fn = "GetQualifier" -> GetQualifier(B.qn, B.ns)
      [] fn = "SetQualifier" -> SetQualifier(B.qd, B.ns)
      [] fn = "DeleteQualifier" -> DeleteQualifier(B.qn, B.ns)

\* Lines 771-795: the function each short name is bound to.
Aliases_a_swapped ==
    [ein |-> "EnumerateInstanceNames", ei |-> "EnumerateInstances",
     gi  |-> "GetInstance",            mi |-> "ModifyInstance",
     ci  |-> "CreateInstance",         di |-> "DeleteInstance",
     an  |-> "AssociatorNames",        a  |-> "AssociatorNames",
     rn  |-> "ReferenceNames",         r  |-> "References",
     im  |-> "InvokeMethod",
     ecn |-> "EnumerateClassNames",    ec |-> "EnumerateClasses",
     gc  |-> "GetClass",               mc |-> "ModifyClass",
     cc  |-> "CreateClass",            dc |-> "DeleteClass",
     eq  |-> "EnumerateQualifiers",    gq |-> "GetQualifier",
     sq  |-> "SetQualifier",           dq |-> "DeleteQualifier"]

Aliases ==
    [ein |-> "EnumerateInstanceNames", ei |-> "EnumerateInstances",
     gi  |-> "GetInstance",            mi |-> "ModifyInstance",
     ci  |-> "CreateInstance",         di |-> "DeleteInstance",
     an  |-> "AssociatorNames",        a  |-> "Associators",
     rn  |-> "ReferenceNames",         r  |-> "References",
     im  |-> "InvokeMethod",
     ecn |-> "EnumerateClassNames",    ec |-> "EnumerateClasses",
     gc  |-> "GetClass",               mc |-> "ModifyClass",
     cc  |-> "CreateClass",            dc |-> "DeleteClass",
     eq  |-> "EnumerateQualifiers",    gq |-> "GetQualifier",
     sq  |-> "SetQualifier",           dq |-> "DeleteQualifier"]

\* Lines 712-732: the long name the help text of h() gives for each short one.
HelpText ==
    [ein |-> "EnumerateInstanceNames", ei |-> "EnumerateInstances",
     gi  |-> "GetInstance",            mi |-> "ModifyInstance",
     ci  |-> "CreateInstance",         di |-> "DeleteInstance",
     an  |-> "AssociatorNames",        a  |-> "Associators",
     rn  |-> "ReferenceNames",         r  |-> "References",
     im  |-> "InvokeMethod",
     ecn |-> "EnumerateClassNames",    ec |-> "EnumerateClasses",
     gc  |-> "GetClass",               mc |-> "ModifyClass",
     cc  |-> "CreateClass",            dc |-> "DeleteClass",
     eq  |-> "EnumerateQualifiers",    gq |-> "GetQualifier",
     sq  |-> "SetQualifier",           dq |-> "DeleteQualifier"]

\* The function a global name of the module denotes: a def, or an alias.
Resolve(name) == IF name \in DOMAIN Aliases THEN Aliases[name] ELSE name

\* The names that denote function fn.
NamesOf(fn) == {fn} \cup {n \in DOMAIN Aliases : Aliases[n] = fn}

-----------------------------------------------------------------------------
(* Running a function body against the connection. *)

\* What the caller gets from "return CONN.op(...)" (ret) or "CONN.op(...)"
\* when the connection answers r: an exception passes through unchanged, a
\* result is returned or dropped.
Outcome_wrap(ret, r) ==
    IF r.kind = "TransportError" THEN CIMError(1, r.desc)
    ELSE IF IsError(r) THEN r
    ELSE IF ret THEN r ELSE NoneValue

Outcome(ret, r) ==
    IF IsError(r) THEN r
    ELSE IF ret THEN r ELSE NoneValue

\* The body run with the global CONN being conn, the connection answering r
\* to each call.  With CONN None the attribute lookup CONN.op fails before
\* anything is called.  An exception ends the body at the call that raised.
Run_first_connection(body, conn, r) ==
    IF conn = NoConn
    THEN [sent    |-> <<>>,
          reply   |-> NoReply,
          outcome |-> AttributeError(body.calls[1].op)]
    ELSE LET n    == Len(body.calls)
             made == IF IsError(r) /\ n > 1 THEN 1 ELSE n
         IN  [sent    |-> [i \in 1..made |->
                              [conn |-> 1,
                               op   |-> body.calls[i].op,
                               pos  |-> body.calls[i].pos,
                               kw   |-> body.calls[i].kw]],
              reply   |-> r,
              outcome |-> Outcome(body.ret, r)]

Run(body, conn, r) ==
    IF conn = NoConn
    THEN [sent    |-> <<>>,
          reply   |-> NoReply,
          outcome |-> AttributeError(body.calls[1].op)]
    ELSE LET n    == Len(body.calls)
             made == IF IsError(r) /\ n > 1 THEN 1 ELSE n
         IN  [sent    |-> [i \in 1..made |->
                              [conn |-> conn[1].id,
                               op   |-> body.calls[i].op,
                               pos  |-> body.calls[i].pos,
                               kw   |-> body.calls[i].kw]],
              reply   |-> r,
              outcome |-> Outcome(body.ret, r)]

-----------------------------------------------------------------------------
(* Inputs. *)

\* Values a caller passes for parameter p of function fn.
Dom(fn, p) ==
    CASE p = "cn" -> IF p \in Required[fn] THEN {"'CIM_Foo'"}
                     ELSE {None, "'CIM_Foo'"}
      [] p = "ns" -> {None, "'root/cimv2'"}
      [] p \in {"lo", "di", "iq", "ico"} -> {None, False, True}
      [] p = "pl" -> {None, "[]", "['Name']"}
      [] p \in {"ac", "rc", "r", "rr"} -> {None, "'CIM_Bar'"}
      [] p = "mn" -> {"'Reset'"}
      [] OTHER -> {"<" \o p \o ">"}

\* The ways of passing exactly the parameters D.
Choices(fn, D) ==
    {A \in [D -> UNION {Dom(fn, p) : p \in D}] :
        \A p \in D : A[p] \in Dom(fn, p)}

\* The argument lists tried for fn: the required parameters and at most
\* MaxPassed optional ones.
Args(fn) ==
    UNION {Choices(fn, Required[fn] \cup S) :
              S \in {T \in SUBSET Optional[fn] : Cardinality(T) <= MaxPassed}}

\* InvokeMethod's further positional and keyword arguments.
InvokeMethodArgs ==
    {[mn |-> "'Reset'", op |-> "<op>", params |-> ps, kwparams |-> kw] :
        ps \in {<<>>, <<"1">>}, kw \in {{}, {<<"Force", True>>}}}

ArgSets ==
    [fn \in Functions |->
        IF fn = "InvokeMethod" THEN InvokeMethodArgs ELSE Args(fn)]

\* What may be typed at the password prompt.
TypedPasswords == {"", "secret"}

OptionSets(ports, users, passwords, namespaces) ==
    [port : ports, no_ssl : BOOLEAN, user : users, password : passwords,
     namespace : namespaces]

\* The command lines of a shell session.
SessionServers == {<<"h">>, <<"/", "s">>}
SessionOpts ==
    {[port |-> Absent, no_ssl |-> FALSE, user |-> Absent,
      password |-> Absent, namespace |-> "root/cimv2"],
     [port |-> Given(5989), no_ssl |-> TRUE, user |-> Given("bob"),
      password |-> Absent, namespace |-> "root/x"]}

\* The command lines tried for _remote_connection alone.
AllServers == {<<"h">>, <<"h", "/">>, <<"/">>, <<"/", "s">>}
AllOpts ==
    OptionSets({Absent, Given(-1), Given(0), Given(5989)},
               {Absent, Given("bob")},
               {Absent, Given("pw")},
               {"root/cimv2", "root/x"})

-----------------------------------------------------------------------------
(* State machine. *)

NoCall == [fn |-> "", via |-> "", args |-> <<>>]

\* No connection object yet returned to main().
NoConnection ==
    [id |-> 0, url |-> <<>>, creds |-> Absent, default_namespace |-> "",
     debug |-> FALSE]

\* main() is not running.  argv is the command line, readline is
\* _HAVE_READLINE (lines 62-66), conn is what _remote_connection returned to
\* line 894, histread is how reading the history file went, log is what
\* main() has done in order, result is how it ended.
NotRunning ==
    [pc       |-> "import",
     argv     |-> [server |-> Absent, port |-> Absent, no_ssl |-> FALSE,
                   user |-> Absent, password |-> Absent, namespace |-> Absent],
     readline |-> FALSE,
     conn     |-> NoConnection,
     histread |-> "",
     log      |-> <<>>,
     result   |-> ""]

\* Lines 121-703: no operation function assigns CONN or an attribute of it.
ConnAfterCall_sets_namespace(fn, A, conn) ==
    IF conn # NoConn /\ "ns" \in DOMAIN A /\ A.ns # None
    THEN Given([conn[1] EXCEPT !.default_namespace = A.ns])
    ELSE conn

ConnAfterCall(fn, A, conn) == conn

Init ==
    /\ CONN = NoConn
    /\ created = 0
    /\ call = NoCall
    /\ events = <<>>
    /\ typed = Absent
    /\ sent = <<>>
    /\ reply = NoReply
    /\ outcome = NoReply
    /\ printed = <<>>
    /\ main = NotRunning

\* _remote_connection(server, opts), lines 77-110.
\* pw is what the user types if prompted.
Connect(server, opts, pw) ==
    /\ CONN' = Given(NewConnection(created + 1, server, opts, pw))
    /\ created' = created + 1
    /\ call' = [fn   |-> "_remote_connection",
                via  |-> "_remote_connection",
                args |-> [server |-> server, opts |-> opts]]
    /\ events' = ConnectEvents(opts)
    /\ typed' = IF NeedsPrompt(opts) THEN Given(pw) ELSE Absent
    /\ sent' = <<>>
    /\ reply' = NoReply
    /\ outcome' = [kind |-> "CONN", value |-> <<>>, code |-> 0, desc |-> ""]
    /\ printed' = <<>>

\* The caller evaluates via(**A): the name is looked up, the function it
\* denotes runs, and the connection answers r.
Invoke(via, A, r) ==
    LET res == Run(Apply(Resolve(via), A), CONN, r) IN
    /\ call' = [fn |-> Resolve(via), via |-> via, args |-> A]
    /\ sent' = res.sent
    /\ reply' = res.reply
    /\ outcome' = res.outcome
    /\ events' = [i \in 1..Len(res.sent) |-> "CONN." \o res.sent[i].op]
    /\ typed' = Absent
    /\ printed' = <<>>
    /\ CONN' = ConnAfterCall(Resolve(via), A, CONN)
    /\ UNCHANGED <<created, main>>

\* The caller has its result or exception and is ready for the next call
\* (in the console: the next input line).
Prompt ==
    /\ call # NoCall
    /\ main.pc \in {"import", "console"}
    /\ call' = NoCall
    /\ events' = <<>>
    /\ typed' = Absent
    /\ sent' = <<>>
    /\ reply' = NoReply
    /\ outcome' = NoReply
    /\ printed' = <<>>
    /\ UNCHANGED <<CONN, created, main>>

\* A caller can act: nothing is being evaluated, and either main() is not
\* running (the module is used as imported) or its console is reading input.
Ready == call = NoCall /\ main.pc \in {"import", "console"}

_remote_connection ==
    /\ call = NoCall
    /\ main.pc = "import"
    /\ created < MaxConns
    /\ \E server \in SessionServers, opts \in SessionOpts, pw \in TypedPasswords :
          Connect(server, opts, pw) /\ UNCHANGED main

\* A call of an operation function, by its long name or its short one.

Call_EnumerateInstanceNames ==
    /\ Ready
    /\ \E via \in NamesOf("EnumerateInstanceNames"),
          A \in ArgSets["EnumerateInstanceNames"],
          r \in Replies :
            Invoke(via, A, r)

Call_EnumerateInstances ==
    /\ Ready
    /\ \E via \in NamesOf("EnumerateInstances"),
          A \in ArgSets["EnumerateInstances"],
          r \in Replies :
            Invoke(via, A, r)

Call_GetInstance ==
    /\ Ready
    /\ \E via \in NamesOf("GetInstance"),
          A \in ArgSets["GetInstance"],
          r \in Replies :
            Invoke(via, A, r)

Call_ModifyInstance ==
    /\ Ready
    /\ \E via \in NamesOf("ModifyInstance"),
          A \in ArgSets["ModifyInstance"],
          r \in Replies :
            Invoke(via, A, r)

Call_CreateInstance ==
    /\ Ready
    /\ \E via \in NamesOf("CreateInstance"),
          A \in ArgSets["CreateInstance"],
          r \in Replies :
            Invoke(via, A, r)

Call_DeleteInstance ==
    /\ Ready
    /\ \E via \in NamesOf("DeleteInstance"),
          A \in ArgSets["DeleteInstance"],
          r \in Replies :
            Invoke(via, A, r)

Call_AssociatorNames ==
    /\ Ready
    /\ \E via \in NamesOf("AssociatorNames"),
          A \in ArgSets["AssociatorNames"],
          r \in Replies :
            Invoke(via, A, r)

Call_Associators ==
    /\ Ready
    /\ \E via \in NamesOf("Associators"),
          A \in ArgSets["Associators"],
          r \in Replies :
            Invoke(via, A, r)

Call_ReferenceNames ==
    /\ Ready
    /\ \E via \in NamesOf("ReferenceNames"),
          A \in ArgSets["ReferenceNames"],
          r \in Replies :
            Invoke(via, A, r)

Call_References ==
    /\ Ready
    /\ \E via \in NamesOf("References"),
          A \in ArgSets["References"],
          r \in Replies :
            Invoke(via, A, r)

Call_InvokeMethod ==
    /\ Ready
    /\ \E via \in NamesOf("InvokeMethod"),
          A \in ArgSets["InvokeMethod"],
          r \in Replies :
            Invoke(via, A, r)

Call_EnumerateClassNames ==
    /\ Ready
    /\ \E via \in NamesOf("EnumerateClassNames"),
          A \in ArgSets["EnumerateClassNames"],
          r \in Replies :
            Invoke(via, A, r)

Call_EnumerateClasses ==
    /\ Ready
    /\ \E via \in NamesOf("EnumerateClasses"),
          A \in ArgSets["EnumerateClasses"],
          r \in Replies :
            Invoke(via, A, r)

Call_GetClass ==
    /\ Ready
    /\ \E via \in NamesOf("GetClass"),
          A \in ArgSets["GetClass"],
          r \in Replies :
            Invoke(via, A, r)

Call_ModifyClass ==
    /\ Ready
    /\ \E via \in NamesOf("ModifyClass"),
          A \in ArgSets["ModifyClass"],
          r \in Replies :
            Invoke(via, A, r)

Call_CreateClass ==
    /\ Ready
    /\ \E via \in NamesOf("CreateClass"),
          A \in ArgSets["CreateClass"],
          r \in Replies :
            Invoke(via, A, r)

Call_DeleteClass ==
    /\ Ready
    /\ \E via \in NamesOf("DeleteClass"),
          A \in ArgSets["DeleteClass"],
          r \in Replies :
            Invoke(via, A, r)

Call_EnumerateQualifiers ==
    /\ Ready
    /\ \E via \in NamesOf("EnumerateQualifiers"),
          A \in ArgSets["EnumerateQualifiers"],
          r \in Replies :
            Invoke(via, A, r)

Call_GetQualifier ==
    /\ Ready
    /\ \E via \in NamesOf("GetQualifier"),
          A \in ArgSets["GetQualifier"],
          r \in Replies :
            Invoke(via, A, r)

Call_SetQualifier ==
    /\ Ready
    /\ \E via \in NamesOf("SetQualifier"),
          A \in ArgSets["SetQualifier"],
          r \in Replies :
            Invoke(via, A, r)

Call_DeleteQualifier ==
    /\ Ready
    /\ \E via \in NamesOf("DeleteQualifier"),
          A \in ArgSets["DeleteQualifier"],
          r \in Replies :
            Invoke(via, A, r)

-----------------------------------------------------------------------------
(* h() and the connection info, lines 706-760 and 799-808. *)

\* '%s' % x for None or a string.
Str(x) == IF x = Absent THEN "None" ELSE x[1]

\* _get_connection_info(), lines 799-808, for the connection object conn:
\* the three parts of 'Connected to <url><credentials>, default namespace <ns>'.
_get_connection_info_as_password(conn) ==
    [url               |-> conn.url,
     credentials       |-> IF conn.creds # Absent
                           THEN <<" as ", Str(conn.creds[1][2])>>
                           ELSE <<" without credentials">>,
     default_namespace |-> conn.default_namespace]

_get_connection_info(conn) ==
    [url               |-> conn.url,
     credentials       |-> IF conn.creds # Absent
                           THEN <<" as ", Str(conn.creds[1][1])>>
                           ELSE <<" without credentials">>,
     default_namespace |-> conn.default_namespace]

\* h(), lines 706-760: prints the connection info, then the help text; with
\* CONN None the read of CONN.url raises AttributeError and nothing is printed.
h ==
    /\ Ready
    /\ call' = [fn |-> "h", via |-> "h", args |-> <<>>]
    /\ events' = <<>>
    /\ typed' = Absent
    /\ sent' = <<>>
    /\ reply' = NoReply
    /\ outcome' = IF CONN = NoConn THEN AttributeError("url") ELSE NoneValue
    /\ printed' = IF CONN = NoConn THEN <<>>
                  ELSE <<_get_connection_info(CONN[1])>>
    /\ UNCHANGED <<CONN, created, main>>


-----------------------------------------------------------------------------
(* The specifications. *)

Next ==
    \/ _remote_connection
    \/ Call_EnumerateInstanceNames
    \/ Call_EnumerateInstances
    \/ Call_GetInstance
    \/ Call_ModifyInstance
    \/ Call_CreateInstance
    \/ Call_DeleteInstance
    \/ Call_AssociatorNames
    \/ Call_Associators
    \/ Call_ReferenceNames
    \/ Call_References
    \/ Call_InvokeMethod
    \/ Call_EnumerateClassNames
    \/ Call_EnumerateClasses
    \/ Call_GetClass
    \/ Call_ModifyClass
    \/ Call_CreateClass
    \/ Call_DeleteClass
    \/ Call_EnumerateQualifiers
    \/ Call_GetQualifier
    \/ Call_SetQualifier
    \/ Call_DeleteQualifier
    \/ h
    \/ Prompt

\* The shell session: connections and operation calls in any order.
Spec == Init /\ [][Next]_vars

\* _remote_connection over the whole range of command lines.
ConnectAny ==
    /\ call = NoCall
    /\ main.pc = "import"
    /\ created < MaxConns
    /\ \E server \in AllServers, opts \in AllOpts, pw \in TypedPasswords :
          Connect(server, opts, pw) /\ UNCHANGED main

NextConnect == ConnectAny \/ h \/ Prompt

SpecConnect == Init /\ [][NextConnect]_vars

-----------------------------------------------------------------------------
(* main(), lines 827-920. *)

\* Line 866: default='root/cimv2' of -n.
DefaultNamespace == "root/cimv2"

\* Line 888: argparse's namespace for the command line argv.
ParseArgs(argv) ==
    [port      |-> argv.port,
     no_ssl    |-> argv.no_ssl,
     user      |-> argv.user,
     password  |-> argv.password,
     namespace |-> IF argv.namespace = Absent THEN DefaultNamespace
                   ELSE argv.namespace[1]]

\* Line 890: not args.server, for a server that is absent (None) or ''.
MissingServer_only_absent(argv) == argv.server = Absent

MissingServer(argv) == argv.server = Absent \/ argv.server = Given(<<>>)

\* The command lines main() is run with.
MainServers == {Absent, Given(<<>>), Given(<<"h">>)}
MainArgv ==
    {[server |-> sv, port |-> Absent, no_ssl |-> FALSE, user |-> Absent,
      password |-> Absent, namespace |-> Absent] : sv \in MainServers}
    \cup
    {[server |-> sv, port |-> Given(5989), no_ssl |-> TRUE,
      user |-> Given("bob"), password |-> Absent,
      namespace |-> Given("root/x")] : sv \in MainServers}

\* Lines 888-891: the arguments are parsed; without a server argparser.error
\* prints the message and exits with status 2.
MainParse ==
    /\ main.pc = "import"
    /\ call = NoCall
    /\ created = 0
    /\ \E argv \in MainArgv, readline \in BOOLEAN :
          main' = IF MissingServer(argv)
                  THEN [main EXCEPT !.pc = "done", !.argv = argv,
                                    !.readline = readline,
                                    !.log = <<"error: No WBEM server specified">>,
                                    !.result = "SystemExit(2)"]
                  ELSE [main EXCEPT !.pc = "parsed", !.argv = argv,
                                    !.readline = readline]
    /\ UNCHANGED <<CONN, created, call, events, typed, sent, reply, outcome,
                   printed>>

\* Line 894: CONN = _remote_connection(args.server, args).  server[0] of an
\* empty server raises IndexError (line 90).
MainConnect ==
    /\ main.pc = "parsed"
    /\ IF main.argv.server[1] = <<>>
       THEN /\ main' = [main EXCEPT !.pc = "done", !.result = "IndexError"]
            /\ UNCHANGED <<CONN, created, call, events, typed, sent, reply,
                           outcome, printed>>
       ELSE \E pw \in TypedPasswords :
              /\ Connect(main.argv.server[1], ParseArgs(main.argv), pw)
              /\ main' = [main EXCEPT !.pc = "connected",
                                      !.conn = CONN'[1],
                                      !.log = @ \o <<"_remote_connection">>]

\* Lines 905-910: how read_history_file(histfile) ends.  how is what the file
\* system does; subscriptable tells whether the interpreter evaluates arg[0]
\* of the IOError (Python 2 does, Python 3 raises TypeError).
ReadOutcomes == {"ok", "ENOENT", "EACCES"}
ReadHistory(how, subscriptable) ==
    IF how = "ok" THEN ""
    ELSE IF ~subscriptable THEN "TypeError"
    ELSE IF how # "ENOENT" THEN "IOError"
    ELSE ""

\* Lines 904-910: the history file is read when readline is available; an
\* exception leaves main().
MainReadHistory ==
    /\ main.pc = "connected"
    /\ IF ~main.readline
       THEN main' = [main EXCEPT !.pc = "history"]
       ELSE \E how \in ReadOutcomes, subscriptable \in BOOLEAN :
              LET exc == ReadHistory(how, subscriptable)
              IN  main' = [main EXCEPT
                             !.pc = IF exc = "" THEN "history" ELSE "done",
                             !.histread = how,
                             !.log = @ \o <<"read_history_file">>,
                             !.result = exc]
    /\ UNCHANGED <<CONN, created, call, events, typed, sent, reply, outcome,
                   printed>>

\* Lines 913-914: the console starts with the banner of lines 811-825, which
\* holds the connection info.
MainInteract ==
    /\ main.pc = "history"
    /\ main' = [main EXCEPT !.pc = "console", !.log = @ \o <<"interact">>]
    /\ call' = NoCall
    /\ events' = <<>>
    /\ typed' = Absent
    /\ sent' = <<>>
    /\ reply' = NoReply
    /\ outcome' = NoReply
    /\ printed' = <<_get_connection_info(CONN[1])>>
    /\ UNCHANGED <<CONN, created>>

\* Ctrl-D at the prompt: interact() returns to line 916.
ConsoleEOF ==
    /\ main.pc = "console"
    /\ call = NoCall
    /\ main' = [main EXCEPT !.pc = "interacted"]
    /\ UNCHANGED <<CONN, created, call, events, typed, sent, reply, outcome,
                   printed>>

\* quit() at the prompt: SystemExit leaves interact() and main() (lines
\* 819-821).
ConsoleQuit ==
    /\ main.pc = "console"
    /\ call = NoCall
    /\ main' = [main EXCEPT !.pc = "done", !.result = "SystemExit"]
    /\ UNCHANGED <<CONN, created, call, events, typed, sent, reply, outcome,
                   printed>>

\* Lines 917-920: the history file is written when readline is available,
\* then main() returns 0; a failing write leaves main() with its IOError.
MainWriteHistory ==
    /\ main.pc = "interacted"
    /\ IF ~main.readline
       THEN main' = [main EXCEPT !.pc = "done", !.result = "0"]
       ELSE \E written \in BOOLEAN :
              main' = [main EXCEPT
                         !.pc = "done",
                         !.log = @ \o <<"write_history_file">>,
                         !.result = IF written THEN "0" ELSE "IOError"]
    /\ UNCHANGED <<CONN, created, call, events, typed, sent, reply, outcome,
                   printed>>

NextMain ==
    \/ MainParse
    \/ MainConnect
    \/ MainReadHistory
    \/ MainInteract
    \/ Call_EnumerateInstanceNames
    \/ Call_EnumerateInstances
    \/ Call_GetInstance
    \/ Call_ModifyInstance
    \/ Call_CreateInstance
    \/ Call_DeleteInstance
    \/ Call_AssociatorNames
    \/ Call_Associators
    \/ Call_ReferenceNames
    \/ Call_References
    \/ Call_InvokeMethod
    \/ Call_EnumerateClassNames
    \/ Call_EnumerateClasses
    \/ Call_GetClass
    \/ Call_ModifyClass
    \/ Call_CreateClass
    \/ Call_DeleteClass
    \/ Call_EnumerateQualifiers
    \/ Call_GetQualifier
    \/ Call_SetQualifier
    \/ Call_DeleteQualifier
    \/ h
    \/ Prompt
    \/ ConsoleEOF
    \/ ConsoleQuit
    \/ MainWriteHistory

\* A run of main(): the command line, the connection, the history file and
\* the console with its operation calls.
SpecMain == Init /\ [][NextMain]_vars

-----------------------------------------------------------------------------
(* Reading a state. *)

\* An operation function has just run with a connection in CONN.
Forwarded == call.fn \in Functions /\ CONN # NoConn

\* _remote_connection has just run.
Connected == call.fn = "_remote_connection"

\* The value the caller gave parameter p: the argument passed, else nothing,
\* which Python takes as the default None.
Passed(p) == IF p \in DOMAIN call.args THEN call.args[p] ELSE None

\* The value a forwarded call c carries for keyword k.
Carries(c, k, v) == <<k, v>> \in c.kw /\ \A q \in c.kw : q[1] = k => q[2] = v

\* The connection parameter each option is documented to control (the
\* docstrings, e.g. lines 152-174 and 294-312).
Documented ==
    [lo  |-> "LocalOnly",         di |-> "DeepInheritance",
     iq  |-> "IncludeQualifiers", ico |-> "IncludeClassOrigin",
     pl  |-> "PropertyList",      ac |-> "AssocClass",
     rc  |-> "ResultClass",       r  |-> "Role",
     rr  |-> "ResultRole"]

\* ns is the connection's namespace parameter, which follows the required
\* positional parameters.
NamespaceSlot(fn) == Cardinality(Required[fn]) + 1

\* Option p of the function called reached its connection parameter with
\* value v.
Reached(p, v) ==
    IF p = "ns" THEN /\ Len(sent[1].pos) >= NamespaceSlot(call.fn)
                     /\ sent[1].pos[NamespaceSlot(call.fn)] = v
    ELSE Carries(sent[1], Documented[p], v)

\* The functions documented to return a result.
ResultFunctions ==
    {"EnumerateInstanceNames", "EnumerateInstances", "GetInstance",
     "CreateInstance", "AssociatorNames", "Associators", "ReferenceNames",
     "References", "InvokeMethod", "EnumerateClassNames", "EnumerateClasses",
     "GetClass", "EnumerateQualifiers", "GetQualifier"}

RECURSIVE ParseNat(_)
\* The number a sequence of decimal digits denotes; -1 if it is not one.
ParseNat(ds) ==
    IF ds = <<>> THEN -1
    ELSE LET last == ds[Len(ds)]
             d    == IF \E i \in 1..10 : Digit[i] = last
                     THEN (CHOOSE i \in 1..10 : Digit[i] = last) - 1
                     ELSE -1
         IN  IF d < 0 THEN -1
             ELSE IF Len(ds) = 1 THEN d
             ELSE LET hi == ParseNat(SubSeq(ds, 1, Len(ds) - 1))
                  IN  IF hi < 0 \/ (hi = 0) THEN -1 ELSE hi * 10 + d

\* The integer a decimal numeral denotes, as Given(n); Absent if it is not a
\* numeral in canonical form.
ParseInt(ds) ==
    IF ds # <<>> /\ ds[1] = "-"
    THEN LET n == ParseNat(Tail(ds))
         IN  IF n <= 0 THEN Absent ELSE Given(-n)
    ELSE LET n == ParseNat(ds)
         IN  IF n < 0 THEN Absent ELSE Given(n)

HTTPS == <<"h", "t", "t", "p", "s", ":", "/", "/">>
HTTP == <<"h", "t", "t", "p", ":", "/", "/">>

-----------------------------------------------------------------------------
(* Claims. *)

\* C1: EnumerateClassNames(ns, cn, di) forwards a single call that carries
\* namespace = ns, ClassName = cn and DeepInheritance = di; with cn and di
\* None the call carries ClassName None and DeepInheritance None.
\* The code passes ClassName=ns (line 517), so this fails.
C1_EnumerateClassNamesForwardsItsArguments ==
    (Forwarded /\ call.fn = "EnumerateClassNames") =>
        /\ Len(sent) = 1
        /\ sent[1].pos = <<Passed("ns")>>
        /\ Carries(sent[1], "ClassName", Passed("cn"))
        /\ Carries(sent[1], "DeepInheritance", Passed("di"))

\* C2: each operation function invokes the connection's operation of the
\* same name and no other.  EnumerateClasses calls CONN.EnumerateClassNames
\* (line 555), so this fails.
C2_SameNamedOperation ==
    Forwarded =>
        /\ Len(sent) >= 1
        /\ \A i \in 1..Len(sent) : sent[i].op = call.fn

\* C3: for every operation function and each of its options ns, lo, di, iq,
\* ico, pl, ac, rc, r, rr, the forwarded call carries, for the connection
\* parameter the option is documented to control, None when the caller did
\* not pass the option and exactly the value passed (False stays False)
\* otherwise.
C3_OptionsReachTheirParameter ==
    Forwarded =>
        \A p \in Optional[call.fn] \cap ({"ns"} \cup DOMAIN Documented) :
            /\ Reached(p, Passed(p))
            /\ p \notin DOMAIN call.args => Reached(p, None)
            /\ (p \in DOMAIN call.args /\ call.args[p] = False) =>
                   Reached(p, False) /\ ~Reached(p, None)

C3_Witness ==
    /\ Forwarded
    /\ call.fn = "EnumerateInstances"
    /\ "lo" \notin DOMAIN call.args
    /\ "di" \in DOMAIN call.args /\ call.args.di = False
    /\ Carries(sent[1], "LocalOnly", None)
    /\ Carries(sent[1], "DeepInheritance", False)

\* C4: a call of an operation function, made while CONN holds a connection,
\* makes exactly one call on that connection, whether the call succeeds or
\* fails: none is repeated and none is answered without reaching it.
C4_ExactlyOneConnectionCall ==
    Forwarded =>
        /\ Len(sent) = 1
        /\ sent[1].conn = CONN[1].id
        /\ reply \in Replies

C4_Witness ==
    /\ Forwarded
    /\ call.fn = "GetInstance"
    /\ reply = CIMError(6, "not found")
    /\ Len(sent) = 1

\* C5: when the connection call fails, the caller of the operation function
\* gets the same error: same kind, same status code, same description; a
\* transport error is never a CIM error and a failure is never a return.
C5_ErrorsPassUnchanged ==
    (Forwarded /\ IsError(reply)) =>
        /\ outcome = reply
        /\ outcome.kind = reply.kind
        /\ outcome.code = reply.code /\ outcome.desc = reply.desc
        /\ outcome.kind \notin {"value", "None"}

C5_Witness ==
    /\ Forwarded
    /\ call.fn = "DeleteInstance"
    /\ reply = TransportError("timed out")
    /\ outcome = TransportError("timed out")

\* C6: a function documented to return a result returns, on success, exactly
\* what the connection call returned, in the same order; on failure it
\* returns nothing.
C6_ResultsPassUnchanged ==
    (Forwarded /\ call.fn \in ResultFunctions) =>
        /\ ~IsError(reply) => outcome = reply
        /\ IsError(reply) => outcome.kind \notin {"value", "None"}

C6_Witness ==
    /\ Forwarded
    /\ call.fn = "CreateInstance"
    /\ reply = Value(<<"B", "A">>)
    /\ outcome.kind = "value" /\ outcome.value = <<"B", "A">>

\* C7: calling a short name does what calling the long name the help text
\* lists for it does with the same arguments: the same connection calls and
\* the same result or error, whatever CONN is.
C7_AliasEquivalentToLongName ==
    call.via \in DOMAIN HelpText =>
        /\ Accepts(HelpText[call.via], call.args)
        /\ Run(Apply(HelpText[call.via], call.args), CONN, reply)
             = [sent |-> sent, reply |-> reply, outcome |-> outcome]

C7_Witness ==
    /\ Forwarded
    /\ call.via = "a"
    /\ "iq" \in DOMAIN call.args
    /\ sent[1].op = "Associators"
    /\ outcome = Value(<<"A", "B">>)

\* C8: for a server that does not begin with '/', the URL is
\* 'https://<server>' without --no-ssl and 'http://<server>' with it,
\* followed by ':<port>' exactly when --port was given.
C8_UrlOfHostServer ==
    (Connected /\ call.args.server[1] # "/") =>
        LET server == call.args.server
            opts   == call.args.opts
            scheme == IF opts.no_ssl THEN HTTP ELSE HTTPS
            url    == CONN[1].url
            base   == Len(scheme) + Len(server)
        IN  /\ Len(url) >= base
            /\ SubSeq(url, 1, base) = scheme \o server
            /\ opts.port = Absent => Len(url) = base
            /\ opts.port # Absent =>
                   /\ Len(url) >= base + 2
                   /\ url[base + 1] = ":"
                   /\ ParseInt(SubSeq(url, base + 2, Len(url))) = opts.port

C8_Witness ==
    /\ Connected
    /\ call.args.server = <<"h">>
    /\ call.args.opts.no_ssl
    /\ call.args.opts.port = Given(5989)
    /\ CONN[1].url = HTTP \o <<"h", ":", "5", "9", "8", "9">>

\* C9: for a server that begins with '/', the URL is that string unchanged,
\* whatever --no-ssl and --port are.
C9_UrlOfLocalPath ==
    (Connected /\ call.args.server[1] = "/") =>
        CONN[1].url = call.args.server

C9_Witness ==
    /\ Connected
    /\ call.args.server = <<"/", "s">>
    /\ call.args.opts.no_ssl
    /\ call.args.opts.port = Given(5989)
    /\ CONN[1].url = <<"/", "s">>

\* C10: the password prompt occurs exactly when a username was given and no
\* password was; it comes before the connection is created, and the
\* connection then has the credentials (username, typed password).  With a
\* password given, or no username, there is no prompt.
C10_PromptExactlyWhenUserWithoutPassword ==
    Connected =>
        LET opts     == call.args.opts
            prompted == \E i \in 1..Len(events) : events[i] = "getpass"
        IN  /\ prompted <=> (opts.user # Absent /\ opts.password = Absent)
            /\ prompted =>
                   /\ events = <<"getpass", "WBEMConnection">>
                   /\ typed # Absent
                   /\ CONN[1].creds = Given(<<opts.user, typed>>)
            /\ ~prompted =>
                   /\ events = <<"WBEMConnection">>
                   /\ typed = Absent

C10_Witness ==
    /\ Connected
    /\ call.args.opts.user = Given("bob")
    /\ call.args.opts.password = Absent
    /\ events = <<"getpass", "WBEMConnection">>
    /\ CONN[1].creds = Given(<<Given("bob"), Given("secret")>>)

\* main() has done step e.
Did(e) == \E i \in 1..Len(main.log) : main.log[i] = e

\* main() was run without a server: the argument absent, or empty.
WithoutServer ==
    /\ main.pc # "import"
    /\ main.argv.server \in {Absent, Given(<<>>)}

\* C11: run without a server argument (absent or empty), main reports the
\* error 'No WBEM server specified' and stops: no connection is created (CONN
\* stays None), there is no password prompt, the history file is neither read
\* nor written, and the console is never started.
C11_NoServerStopsMain ==
    WithoutServer =>
        /\ main.pc = "done"
        /\ main.log = <<"error: No WBEM server specified">>
        /\ main.result = "SystemExit(2)"
        /\ CONN = NoConn
        /\ created = 0
        /\ typed = Absent
        /\ \A i \in 1..Len(events) : events[i] # "getpass"
        /\ ~Did("_remote_connection")
        /\ ~Did("read_history_file")
        /\ ~Did("write_history_file")
        /\ ~Did("interact")

C11_Witness ==
    /\ main.pc = "done"
    /\ main.argv.server = Given(<<>>)
    /\ main.argv.user = Given("bob")
    /\ main.argv.password = Absent
    /\ main.readline
    /\ main.log = <<"error: No WBEM server specified">>
    /\ CONN = NoConn

\* C12: no operation function changes the connection state of the shell:
\* after any sequence of calls of the operation functions and their aliases,
\* succeeding or failing, CONN is still the connection object that
\* _remote_connection returned, with the url, creds, default_namespace and
\* debug it got at connection time; default_namespace is the -n value, and
\* 'root/cimv2' when -n was not given.
C12_OperationsLeaveConnection ==
    Did("_remote_connection") =>
        /\ CONN = Given(main.conn)
        /\ main.conn.id = created
        /\ main.conn.debug
        /\ main.conn.default_namespace =
               IF main.argv.namespace = Absent THEN "root/cimv2"
               ELSE main.argv.namespace[1]

C12_Witness ==
    /\ main.pc = "console"
    /\ main.argv.namespace = Absent
    /\ call.fn = "GetClass"
    /\ call.via = "gc"
    /\ "ns" \in DOMAIN call.args
    /\ call.args.ns # None
    /\ IsError(outcome)
    /\ Len(sent) = 1
    /\ CONN = Given(main.conn)
    /\ CONN[1].default_namespace = "root/cimv2"

\* log is an initial part of the steps in order.
StartsOf(log, order) ==
    /\ Len(log) <= Len(order)
    /\ \A i \in 1..Len(log) : log[i] = order[i]

\* main() has ended before the console started.
AbortedBeforeConsole ==
    /\ main.pc = "done"
    /\ ~Did("interact")
    /\ main.result \notin {"", "0"}

\* C13: in main, with readline available, the steps come in the order:
\* connection created, history file read, console run, history file written.
\* A missing history file (ENOENT) on read is tolerated and the console still
\* starts; any other read error aborts main before the console starts.  The
\* history file is written only if interact() returned normally (Ctrl-D);
\* left by quit(), which does not return from interact(), it is not written.
C13_HistoryAroundConsole ==
    (main.readline /\ Did("_remote_connection")) =>
        /\ StartsOf(main.log, <<"_remote_connection", "read_history_file",
                                "interact", "write_history_file">>)
        /\ main.histread = "ENOENT" => ~AbortedBeforeConsole
        /\ main.histread = "EACCES" => AbortedBeforeConsole
        /\ Did("write_history_file") => main.result \in {"0", "IOError"}
        /\ main.result = "SystemExit" => ~Did("write_history_file")
        /\ main.pc = "interacted" => Did("read_history_file")

\* The same under an interpreter that evaluates arg[0] of the IOError.
C13_WithSubscriptableErrors ==
    main.result # "TypeError" => C13_HistoryAroundConsole

C13_Reached ==
    /\ main.pc = "done"
    /\ main.readline
    /\ main.histread = "ENOENT"
    /\ main.log = <<"_remote_connection", "read_history_file", "interact",
                    "write_history_file">>
    /\ main.result = "0"

\* The credentials part of the connection info for the credentials c.
ReportedAs(c) ==
    IF c = Absent THEN <<" without credentials">>
    ELSE <<" as ", IF c[1][1] = Absent THEN "None" ELSE c[1][1][1]>>

\* C14: the credentials _remote_connection gives to the connection are None
\* exactly when neither a username nor a password was given; otherwise they
\* are the pair (user, password), whose username is None when only a password
\* was given and whose password is never None when a username was given.
\* So _get_connection_info reports 'without credentials' exactly when neither
\* was given, and otherwise 'as <user>' with the first element of the pair.
C14_CredentialsNoneIffNothingGiven ==
    /\ Connected =>
          LET opts    == call.args.opts
              c       == CONN[1].creds
              neither == opts.user = Absent /\ opts.password = Absent
              info    == _get_connection_info(CONN[1])
          IN  /\ c = Absent <=> neither
              /\ c # Absent =>
                    /\ Len(c[1]) = 2
                    /\ c[1][1] = opts.user
                    /\ c[1][2] = IF opts.password # Absent THEN opts.password
                                 ELSE typed
                    /\ opts.user # Absent => c[1][2] # Absent
              /\ info.credentials = <<" without credentials">> <=> neither
              /\ info.credentials = ReportedAs(c)
    /\ (call.fn = "h" /\ CONN # NoConn) =>
          /\ Len(printed) = 1
          /\ printed[1].credentials = ReportedAs(CONN[1].creds)
          /\ printed[1].url = CONN[1].url
          /\ printed[1].default_namespace = CONN[1].default_namespace

C14_Witness ==
    /\ call.fn = "h"
    /\ CONN # NoConn
    /\ CONN[1].creds = Given(<<Absent, Given("pw")>>)
    /\ printed[1].credentials = <<" as ", "None">>

\* An operation function or h() has just run.
Called == call.fn \in Functions \cup {"h"}

\* What holds of CONN in every state.
SingleConnection ==
    /\ CONN = NoConn <=> created = 0
    /\ CONN # NoConn => CONN[1].id = created /\ CONN[1].debug
    /\ (Called /\ CONN = NoConn) =>
          /\ outcome.kind = "AttributeError"
          /\ sent = <<>>
          /\ printed = <<>>
    /\ Forwarded =>
          /\ Len(sent) >= 1
          /\ \A i \in 1..Len(sent) : sent[i].conn = created

\* C15: all operation functions use the one process-wide CONN, which is None
\* until _remote_connection runs and is assigned only by _remote_connection
\* (and main, through it): an operation function or h() called while CONN is
\* None fails with an error and creates no connection, after a second
\* _remote_connection every operation call goes to the newest connection and
\* none to the earlier one, and every connection created has debug True.
C15_OneProcessWideConnection ==
    /\ []SingleConnection
    /\ [][/\ (CONN' # CONN \/ created' # created) =>
                /\ call'.fn = "_remote_connection"
                /\ created' = created + 1
                /\ CONN' # NoConn
                /\ CONN'[1].id = created'
          /\ call'.fn \in Functions \cup {"h"} =>
                CONN' = CONN /\ created' = created]_vars

C15_Witness ==
    /\ created = 2
    /\ Forwarded
    /\ call.via = "ei"
    /\ Len(sent) = 1
    /\ sent[1].conn = 2
    /\ CONN[1].id = 2
    /\ CONN[1].debug


====
